---------------------------- MODULE Spec2Model ----------------------------
(***************************************************************************)
(* Model of the vue-comments widget: one mounted component instance, the   *)
(* browser events it handles and the three remote endpoints it talks to    *)
(* (reCAPTCHA config, comment list, comment create).                       *)
(*                                                                         *)
(* The repository ships three variants of the same single-file component:  *)
(*   "basic"     src/components/VueComments.vue  (structured list)         *)
(*   "rendered"  src/unnamed/part_000            (server-rendered markup)  *)
(*   "recaptcha" src/unnamed/part_001            (markup + reCAPTCHA)      *)
(* The variant is fixed at Init; every action follows the code of the      *)
(* variant it runs in.                                                     *)
(*                                                                         *)
(* One step of the model is one browser task: an event handler or promise  *)
(* continuation run up to its next await on a network / library call,      *)
(* followed by Vue's flush (watchers, render, nextTick callbacks).         *)
(***************************************************************************)
EXTENDS Integers, FiniteSets, Sequences, TLC

VARIABLES
    variant,            \* which of the three components is mounted
    serverCfg,          \* the server's reCAPTCHA configuration (environment)
    mountPc,            \* position of the onMounted callback
    configRequests,     \* number of requests sent to the config endpoint
    recaptchaConfig,    \* ref recaptchaConfig
    recaptchaInstance,  \* ref recaptchaInstance (FALSE = null)
    commentsData,       \* ref commentsData (ref comments in "basic")
    loading,            \* ref loading
    submitting,         \* ref submitting
    message,            \* ref message
    replyingTo,         \* ref replyingTo
    form,               \* contents of the form's visible fields (DOM state)
    calls,              \* the submitComment calls, by call number
    nCalls,             \* number of submitComment calls started so far
    lastResult,         \* record of the most recently completed call
    listIssued,         \* number of list (GET comments) requests issued
    approvedSeen,       \* number of approved successful create responses
    listenersAttached,  \* the displayed reply links carry handleReplyClick
    attachPending,      \* a setTimeout of handleRenderedHTML is pending
    lastEvent,          \* the event handled by the latest step, with its inputs
    issueSeq,           \* per pending list request, its rank in issue order
    freshest            \* of the successful list responses received so far,
                        \* the issue rank and body of the latest-issued one

vars == <<variant, serverCfg, mountPc, configRequests, recaptchaConfig,
          recaptchaInstance, commentsData, loading, submitting, message,
          replyingTo, form, calls, nCalls, lastResult, listIssued,
          approvedSeen, listenersAttached, attachPending, lastEvent,
          issueSeq, freshest>>

----------------------------------------------------------------------------
(* Bounds *)

\* Number of submitComment calls explored in one behaviour.
MaxSubmits == 2

----------------------------------------------------------------------------
(* Values *)

Variants == {"basic", "rendered", "recaptcha"}

\* part_001 is the only variant that imports recaptcha-v3.
HasRecaptcha(v) == v = "recaptcha"

\* The variants that keep a replyingTo ref and intercept reply links.
HasReply(v) == v \in {"rendered", "recaptcha"}

\* JavaScript null for the refs that start as null.
Null == [null |-> TRUE]

\* const recaptchaConfig = ref({ enabled: false, site_key: '' })
DefaultRecaptchaConfig == [enabled |-> FALSE, site_key |-> ""]

\* What the config endpoint of the server can hold.
ServerConfigs ==
    { [enabled |-> FALSE, site_key |-> ""],
      [enabled |-> TRUE,  site_key |-> "key"],
      [enabled |-> TRUE,  site_key |-> ""] }

\* Bodies of a successful list response: opaque markup and a count.
\* (In "basic" the body is an array; rendered stands for its contents.)
ListBodies ==
    { [rendered |-> "",                   count |-> 0],
      [rendered |-> "<li>A</li>",         count |-> 1],
      [rendered |-> "<li>A</li><li>B</li>", count |-> 2] }

\* Outcomes of a list request: a successful body, a non-success status,
\* or a network failure.
ListResponses ==
    { [kind |-> "ok", body |-> b] : b \in ListBodies }
        \cup { [kind |-> "status"], [kind |-> "network"] }

\* The fixed texts of the components.
RecaptchaFailMsg == "Failed to verify reCAPTCHA. Please try again."
GenericErrorMsg  == "Error submitting comment. Please try again."
DefaultOkMsg     == "Comment submitted successfully!"

\* message fields a server may put in a create response ("" = none).
ServerOkMsgs  == {"", "Your comment is awaiting moderation.",
                  "Comment posted successfully."}
ServerErrMsgs == {"", "Duplicate comment detected"}

\* approved field of a successful create response.
ApprovedVals == {"true", "false", "omitted"}

\* Outcomes of a create request.
CreateResponses ==
    { [kind |-> "ok", message |-> m, approved |-> a] :
          m \in ServerOkMsgs, a \in ApprovedVals }
        \cup { [kind |-> "status", message |-> m] : m \in ServerErrMsgs }
        \cup { [kind |-> "badjson"], [kind |-> "network"] }

\* Outcomes of recaptchaInstance.execute(): a token, an empty token, or a
\* rejection.
ExecuteOutcomes == {"token", "", "throw"}

\* data-commentid / data-replyto / data-respondelement attributes a reply
\* link of the server's markup may carry ("" = attribute absent).
CommentIds == {"", "42", "7"}
LinkAttrs  == {"", "Reply to Jane"}

\* A submitComment call that has not started or has completed.
\* parent and token are the fields of commentData (token: recaptcha_token
\* is set), sent tells that the create request was issued, reply is the
\* message of an ok response.
NoCall == [pc |-> "none", parent |-> "", token |-> FALSE, sent |-> FALSE,
           reply |-> ""]

\* What is remembered of the call that completed last: how it ended,
\* whether its create request was sent, and what the server answered.
NoResult == [outcome |-> "none", sent |-> FALSE, message |-> "",
             approved |-> FALSE]

----------------------------------------------------------------------------
(* Pure helpers *)

\* x || y on strings: '' is falsy.
OrElse(x, y) == IF x # "" THEN x ELSE y

\* JSON.stringify of a string value and of the number 0.
JsonString(s) == "\"" \o s \o "\""
JsonZero == "0"

\* Faulty variant: the markup of the comment state is never read.
renderedCommentsEmpty == ""

\* commentsData.value?.rendered || ''
renderedComments == IF commentsData = Null THEN "" ELSE commentsData.rendered

\* Faulty variant: the heading counts one comment too many.
commentCountOffByOne ==
    IF commentsData = Null THEN 0 ELSE commentsData.count + 1

\* commentsData.value?.count || 0
commentCount == IF commentsData = Null THEN 0 ELSE commentsData.count


\* Which validity the browser requires of the visible fields before it
\* fires the submit event (all three carry the required attribute).
FormValid == form # ""

\* Faulty variant: the hidden parent input is not bound to replyingTo.
hiddenParentUnbound == "0"

\* value of the hidden parent input as the template renders it:
\* :value="replyingTo?.id || 0" (a fixed value="0" in "basic").
hiddenParent ==
    IF HasReply(variant) /\ replyingTo # Null
    THEN OrElse(replyingTo.id, "0")
    ELSE "0"

\* parent: formData.get('comment_parent') || 0, as JSON.stringify emits it.
\* FormData.get returns the input's value as a string.
commentDataParent ==
    IF hiddenParent # "" THEN JsonString(hiddenParent) ELSE JsonZero

\* The v-else-if branch holding the comment list is in the DOM.
ListShown == ~loading /\ renderedComments # ""

\* The reactive state the template reads: a change re-renders the component.
TemplateState ==
    <<commentCount, renderedComments, loading, submitting, message, replyingTo>>

\* The reply links in the DOM after this step are the elements that were
\* there before it: the list branch stayed mounted and v-html was not
\* replaced.
DomKept == ListShown /\ ListShown' /\ renderedComments' = renderedComments

\* watch(renderedComments, ...) runs attachReplyListeners, whose nextTick
\* callback attaches handleReplyClick to the links present after the render.
WatchFires == renderedComments' # renderedComments

\* @vue:mounted / @vue:updated on the <ol> of part_000 run updateReplyLinks.
ListHookFires == ListShown' /\ TemplateState' # TemplateState

\* Vue's flush at the end of a task: which links carry the click listener
\* afterwards, and whether a handleRenderedHTML timer is now pending.
Render ==
    /\ listenersAttached' =
         CASE variant = "recaptcha" ->
                IF WatchFires THEN ListShown' ELSE DomKept /\ listenersAttached
           [] variant = "rendered" -> DomKept /\ listenersAttached
           [] OTHER -> FALSE
    /\ attachPending' =
         IF variant = "rendered" THEN attachPending \/ ListHookFires
         ELSE FALSE

----------------------------------------------------------------------------
(* Initial state: the refs as <script setup> creates them *)

Init ==
    /\ variant \in Variants
    /\ serverCfg \in (IF HasRecaptcha(variant) THEN ServerConfigs
                      ELSE {DefaultRecaptchaConfig})
    /\ mountPc = "unmounted"
    /\ configRequests = 0
    /\ recaptchaConfig = DefaultRecaptchaConfig
    /\ recaptchaInstance = FALSE
    /\ commentsData = Null
    /\ loading = TRUE
    /\ submitting = FALSE
    /\ message = ""
    /\ replyingTo = Null
    /\ form = ""
    /\ calls = [k \in 1..MaxSubmits |-> NoCall]
    /\ nCalls = 0
    /\ lastResult = NoResult
    /\ listIssued = 0
    /\ approvedSeen = 0
    /\ listenersAttached = FALSE
    /\ attachPending = FALSE
    /\ lastEvent = [type |-> "none"]
    /\ issueSeq = [o \in 0..MaxSubmits |-> 0]
    /\ freshest = [seq |-> 0, body |-> Null]

----------------------------------------------------------------------------
(* fetchComments *)

\* loading.value = true at the top of fetchComments; the "basic" variant
\* has no such line.
SetsLoadingOnFetch(v) == v \in {"rendered", "recaptcha"}

\* fetchComments up to its await fetch(...): the list request is issued.
fetchCommentsStart ==
    /\ loading' = IF SetsLoadingOnFetch(variant) THEN TRUE ELSE loading
    /\ listIssued' = listIssued + 1

\* issueSeq once list request o has been issued by this step: requests are
\* ranked in the order in which fetchComments issued them (bookkeeping).
IssuedBy(o) == [issueSeq EXCEPT ![o] = listIssued + 1]

\* The list requests in flight: 0 is the one of onMounted, k > 0 the reload
\* awaited by call k.
PendingList ==
    (IF mountPc = "list" THEN {0} ELSE {})
        \cup {k \in 1..MaxSubmits : calls[k].pc = "reload"}

\* Faulty variant: a failed list request clears the comment state.
commentsClearedOnFailure(resp) ==
    IF resp.kind = "ok" THEN resp.body ELSE Null

\* commentsData after a list response: replaced on response.ok only.
commentsAfter(resp) ==
    IF resp.kind = "ok" THEN resp.body ELSE commentsData

----------------------------------------------------------------------------
(* onMounted *)

\* onMounted starts: the first await of the callback.
Mount ==
    /\ mountPc = "unmounted"
    /\ IF HasRecaptcha(variant)
       THEN /\ mountPc' = "config"
            /\ configRequests' = configRequests + 1
            /\ UNCHANGED <<loading, listIssued>>
       ELSE /\ mountPc' = "list"
            /\ fetchCommentsStart
            /\ UNCHANGED configRequests
    /\ UNCHANGED <<variant, serverCfg, recaptchaConfig, recaptchaInstance,
                   commentsData, submitting, message, replyingTo, form,
                   calls, nCalls, lastResult, approvedSeen>>
    /\ lastEvent' = [type |-> "mount"]
    /\ issueSeq' = IF HasRecaptcha(variant) THEN issueSeq ELSE IssuedBy(0)
    /\ UNCHANGED freshest
    /\ Render

\* Faulty variant: load() is never awaited.
WantsLibraryNever(config) == FALSE

\* config.enabled && config.site_key
WantsLibrary(config) == config.enabled /\ config.site_key # ""

\* The config request completes: ok with the server's config, a non-success
\* status, or a network failure. fetchComments follows unless load() is
\* awaited first.
ConfigRespond(kind) ==
    /\ mountPc = "config"
    /\ recaptchaConfig' = IF kind = "ok" THEN serverCfg ELSE recaptchaConfig
    /\ IF kind = "ok" /\ WantsLibrary(serverCfg)
       THEN /\ mountPc' = "load"
            /\ UNCHANGED <<loading, listIssued>>
       ELSE /\ mountPc' = "list"
            /\ fetchCommentsStart
    /\ UNCHANGED <<variant, serverCfg, configRequests, recaptchaInstance,
                   commentsData, submitting, message, replyingTo, form,
                   calls, nCalls, lastResult, approvedSeen>>
    /\ lastEvent' = [type |-> "config", kind |-> kind]
    /\ issueSeq' = IF mountPc' = "list" THEN IssuedBy(0) ELSE issueSeq
    /\ UNCHANGED freshest
    /\ Render

\* load(config.site_key) settles: the instance is stored, or the rejection
\* is logged; fetchRecaptchaConfig returns and fetchComments starts.
LoadSettle(loaded) ==
    /\ mountPc = "load"
    /\ recaptchaInstance' = loaded
    /\ mountPc' = "list"
    /\ fetchCommentsStart
    /\ UNCHANGED <<variant, serverCfg, configRequests, recaptchaConfig,
                   commentsData, submitting, message, replyingTo, form,
                   calls, nCalls, lastResult, approvedSeen>>
    /\ lastEvent' = [type |-> "load", loaded |-> loaded]
    /\ issueSeq' = IssuedBy(0)
    /\ UNCHANGED freshest
    /\ Render


\* The list response of list request o arrives (0: the request of onMounted,
\* k > 0: the reload awaited by submitComment call k). The finally block
\* clears loading; the awaiting caller resumes and runs to its end.
ListRespond(o, resp) ==
    /\ o \in PendingList
    /\ resp \in ListResponses
    /\ commentsData' = commentsAfter(resp)
    /\ loading' = FALSE
    /\ IF o = 0
       THEN /\ mountPc' = "done"
            /\ UNCHANGED <<submitting, calls, lastResult>>
       ELSE /\ submitting' = FALSE
            /\ lastResult' = [outcome |-> "ok", sent |-> TRUE,
                              message |-> calls[o].reply,
                              approved |-> TRUE]
            /\ calls' = [calls EXCEPT ![o] = NoCall]
            /\ UNCHANGED mountPc
    /\ UNCHANGED <<variant, serverCfg, configRequests, recaptchaConfig,
                   recaptchaInstance, message, replyingTo, form, nCalls,
                   listIssued, approvedSeen>>
    /\ lastEvent' = [type |-> "list", owner |-> o, resp |-> resp]
    /\ issueSeq' = [issueSeq EXCEPT ![o] = 0]
    /\ freshest' = IF resp.kind = "ok" /\ issueSeq[o] > freshest.seq
                   THEN [seq |-> issueSeq[o], body |-> resp.body]
                   ELSE freshest
    /\ Render

----------------------------------------------------------------------------
(* submitComment *)

\* Faulty variant: the submit button is never disabled.
SubmitEnabledAlways == TRUE

\* <button type="submit" :disabled="submitting">: the browser fires the
\* form's submit event only while the submit button is enabled.
SubmitEnabled == ~submitting

\* if (recaptchaConfig.value.enabled) in submitComment; the other variants
\* have no token step.
NeedsToken == HasRecaptcha(variant) /\ recaptchaConfig.enabled

\* Faulty variant: getRecaptchaToken does not check recaptchaInstance.
CanExecuteUnchecked == recaptchaConfig.enabled

\* getRecaptchaToken returns null without calling execute() when
\* !recaptchaConfig.value.enabled || !recaptchaInstance.value.
CanExecute == recaptchaConfig.enabled /\ recaptchaInstance

\* if (token): what execute() produced is a usable token.
TokenOk(out) == out \notin {"", "throw"}

\* Faulty variant: only an explicit approved: false suppresses the reload.
IsApprovedUnlessFalse(resp) == resp.approved # "false"

\* result.approved is truthy.
IsApproved(resp) == resp.approved = "true"

\* Faulty variant: the call ends without clearing submitting.
CompleteKeepsFlag(k, result) ==
    /\ UNCHANGED submitting
    /\ calls' = [calls EXCEPT ![k] = NoCall]
    /\ lastResult' = result

\* The call's finally block (and the early return of the token abort):
\* submitting is cleared and the call is over.
Complete(k, result) ==
    /\ submitting' = FALSE
    /\ calls' = [calls EXCEPT ![k] = NoCall]
    /\ lastResult' = result

\* The submit event: submitComment runs up to its first pending await.
SubmitComment ==
    /\ mountPc # "unmounted"
    /\ SubmitEnabled
    /\ FormValid
    /\ nCalls < MaxSubmits
    /\ nCalls' = nCalls + 1
    /\ LET k == nCalls + 1
           parent == commentDataParent
       IN IF NeedsToken
          THEN IF CanExecute
               THEN \* await recaptchaInstance.execute('submit_comment')
                    /\ submitting' = TRUE
                    /\ message' = ""
                    /\ calls' = [calls EXCEPT ![k] =
                                   [pc |-> "token", parent |-> parent,
                                    token |-> FALSE, sent |-> FALSE,
                                    reply |-> ""]]
                    /\ UNCHANGED lastResult
               ELSE \* getRecaptchaToken resolved null: abort
                    /\ message' = RecaptchaFailMsg
                    /\ Complete(k, [outcome |-> "abort", sent |-> FALSE,
                                    message |-> "", approved |-> FALSE])
          ELSE \* await fetch(..., {method: 'POST', ...})
               /\ submitting' = TRUE
               /\ message' = ""
               /\ calls' = [calls EXCEPT ![k] =
                              [pc |-> "post", parent |-> parent,
                               token |-> FALSE, sent |-> TRUE,
                               reply |-> ""]]
               /\ UNCHANGED lastResult
    /\ UNCHANGED <<variant, serverCfg, mountPc, configRequests,
                   recaptchaConfig, recaptchaInstance, commentsData, loading,
                   replyingTo, form, listIssued, approvedSeen>>
    /\ lastEvent' = [type |-> "submit", call |-> nCalls + 1]
    /\ UNCHANGED <<issueSeq, freshest>>
    /\ Render

\* execute() settles for call k: with a token the create request is sent,
\* otherwise the call aborts with the fixed message.
TokenSettle(k, out) ==
    /\ calls[k].pc = "token"
    /\ out \in ExecuteOutcomes
    /\ IF TokenOk(out)
       THEN /\ calls' = [calls EXCEPT ![k] =
                           [pc |-> "post", parent |-> calls[k].parent,
                            token |-> TRUE, sent |-> TRUE, reply |-> ""]]
            /\ UNCHANGED <<submitting, message, lastResult>>
       ELSE /\ message' = RecaptchaFailMsg
            /\ Complete(k, [outcome |-> "abort", sent |-> FALSE,
                            message |-> "", approved |-> FALSE])
    /\ UNCHANGED <<variant, serverCfg, mountPc, configRequests,
                   recaptchaConfig, recaptchaInstance, commentsData, loading,
                   replyingTo, form, nCalls, listIssued, approvedSeen>>
    /\ lastEvent' = [type |-> "execute", call |-> k, out |-> out]
    /\ UNCHANGED <<issueSeq, freshest>>
    /\ Render

\* Faulty variant: no fallback text when the response body has no message.
messageNoFallback(resp) ==
    IF resp.kind \in {"ok", "status"} THEN resp.message ELSE GenericErrorMsg

\* message.value after a create response of each kind.
messageAfter(resp) ==
    CASE resp.kind = "ok"     -> OrElse(resp.message, DefaultOkMsg)
      [] resp.kind = "status" -> OrElse(resp.message, GenericErrorMsg)
      [] OTHER                -> GenericErrorMsg

\* Faulty variant: the form is reset on every response.
formAlwaysReset(resp) == ""

\* event.target.reset() runs on response.ok only.
formAfter(resp) == IF resp.kind = "ok" THEN "" ELSE form

\* Faulty variant: the reply target is not cleared on success.
replyingToKept(resp) == replyingTo

\* replyingTo.value = null runs on response.ok only.
replyingToAfter(resp) == IF resp.kind = "ok" THEN Null ELSE replyingTo

\* if (result.approved) await fetchComments()
ReloadsAfter(resp) == resp.kind = "ok" /\ IsApproved(resp)

\* 1 for a successful response whose approved field is true (bookkeeping).
ApprovedOk(resp) ==
    IF resp.kind = "ok" /\ resp.approved = "true" THEN 1 ELSE 0

\* The create request of call k completes: ok with a JSON body, a
\* non-success status with a JSON body, a body that is not JSON, or a
\* network failure.
CreateRespond(k, resp) ==
    /\ calls[k].pc = "post"
    /\ resp \in CreateResponses
    /\ message' = messageAfter(resp)
    /\ form' = formAfter(resp)
    /\ replyingTo' = replyingToAfter(resp)
    /\ approvedSeen' = approvedSeen + ApprovedOk(resp)
    /\ IF ReloadsAfter(resp)
       THEN /\ fetchCommentsStart
            /\ calls' = [calls EXCEPT ![k].pc = "reload",
                                      ![k].reply = resp.message]
            /\ UNCHANGED <<submitting, lastResult>>
       ELSE /\ Complete(k, [outcome |-> resp.kind, sent |-> TRUE,
                            message |-> IF resp.kind \in {"ok", "status"}
                                        THEN resp.message ELSE "",
                            approved |-> FALSE])
            /\ UNCHANGED <<loading, listIssued>>
    /\ UNCHANGED <<variant, serverCfg, mountPc, configRequests,
                   recaptchaConfig, recaptchaInstance, commentsData, nCalls>>
    /\ lastEvent' = [type |-> "create", call |-> k, resp |-> resp]
    /\ issueSeq' = IF ReloadsAfter(resp) THEN IssuedBy(k) ELSE issueSeq
    /\ UNCHANGED freshest
    /\ Render


----------------------------------------------------------------------------
(* Reply target *)

\* The value handleReplyClick stores for a link with these attributes, or
\* the current value when its guard fails. part_001 needs data-commentid
\* and defaults the label; part_000 needs data-commentid and
\* data-respondelement and stores the latter.
replyTargetFor(commentId, attr) ==
    CASE variant = "recaptcha" /\ commentId # "" ->
           [id |-> commentId,
            replyTo |-> OrElse(attr, "Comment #" \o commentId)]
      [] variant = "rendered" /\ commentId # "" /\ attr # "" ->
           [id |-> commentId, element |-> attr]
      [] OTHER -> replyingTo

\* A click on a reply link that carries the listener.
HandleReplyClick(commentId, attr) ==
    /\ HasReply(variant)
    /\ ListShown
    /\ listenersAttached
    /\ commentId \in CommentIds
    /\ attr \in LinkAttrs
    /\ replyingTo' = replyTargetFor(commentId, attr)
    /\ UNCHANGED <<variant, serverCfg, mountPc, configRequests,
                   recaptchaConfig, recaptchaInstance, commentsData, loading,
                   submitting, message, form, calls, nCalls, lastResult,
                   listIssued, approvedSeen>>
    /\ lastEvent' = [type |-> "click", commentId |-> commentId, attr |-> attr]
    /\ UNCHANGED <<issueSeq, freshest>>
    /\ Render

\* A click on the cancel control, which the template shows while replyingTo
\* is set.
CancelReply ==
    /\ HasReply(variant)
    /\ replyingTo # Null
    /\ replyingTo' = Null
    /\ UNCHANGED <<variant, serverCfg, mountPc, configRequests,
                   recaptchaConfig, recaptchaInstance, commentsData, loading,
                   submitting, message, form, calls, nCalls, lastResult,
                   listIssued, approvedSeen>>
    /\ lastEvent' = [type |-> "cancel"]
    /\ UNCHANGED <<issueSeq, freshest>>
    /\ Render

\* The visitor fills in the name, email and comment fields.
TypeForm ==
    /\ mountPc # "unmounted"
    /\ form = ""
    /\ form' = "draft"
    /\ UNCHANGED <<variant, serverCfg, mountPc, configRequests,
                   recaptchaConfig, recaptchaInstance, commentsData, loading,
                   submitting, message, replyingTo, calls, nCalls,
                   lastResult, listIssued, approvedSeen>>
    /\ lastEvent' = [type |-> "type"]
    /\ UNCHANGED <<issueSeq, freshest>>
    /\ Render

\* The setTimeout callback of handleRenderedHTML (part_000): every reply
\* link in the document gets the click listener.
AttachTimer ==
    /\ attachPending
    /\ attachPending' = FALSE
    /\ listenersAttached' = ListShown
    /\ UNCHANGED <<issueSeq, freshest>>
    /\ lastEvent' = [type |-> "timer"]
    /\ UNCHANGED <<variant, serverCfg, mountPc, configRequests,
                   recaptchaConfig, recaptchaInstance, commentsData, loading,
                   submitting, message, replyingTo, form, calls, nCalls,
                   lastResult, listIssued, approvedSeen>>

----------------------------------------------------------------------------
(* Specification *)

Next ==
    \/ Mount
    \/ \E kind \in {"ok", "status", "network"} : ConfigRespond(kind)
    \/ \E loaded \in BOOLEAN : LoadSettle(loaded)
    \/ \E o \in 0..MaxSubmits, resp \in ListResponses : ListRespond(o, resp)
    \/ SubmitComment
    \/ \E k \in 1..MaxSubmits, out \in ExecuteOutcomes : TokenSettle(k, out)
    \/ \E k \in 1..MaxSubmits, resp \in CreateResponses : CreateRespond(k, resp)
    \/ \E c \in CommentIds, a \in LinkAttrs : HandleReplyClick(c, a)
    \/ CancelReply
    \/ TypeForm
    \/ AttachTimer

Spec == Init /\ [][Next]_vars


----------------------------------------------------------------------------
(* Derived notions used by the properties *)

\* The submitComment calls that have started and not completed.
ActiveCalls == {k \in 1..MaxSubmits : calls[k].pc # "none"}

\* The create requests in flight.
PendingCreate == {k \in 1..MaxSubmits : calls[k].pc = "post"}

\* This step issues a create request.
CreateIssued == \E k \in 1..MaxSubmits : calls'[k].sent /\ ~calls[k].sent

----------------------------------------------------------------------------
(* Properties *)

\* C1: while a submitComment call is in flight no other call runs, so at
\* most one call is active and at most one create request is pending.
C1_SingleSubmission ==
    /\ Cardinality(ActiveCalls) <= 1
    /\ Cardinality(PendingCreate) <= 1

\* C1 witness: a create request is pending while the form is valid and
\* further submissions are still possible; only the disabled button stops
\* the visitor from submitting again.
C1_Witness ==
    /\ PendingCreate # {}
    /\ FormValid
    /\ nCalls < MaxSubmits
    /\ submitting

\* This step is a submitComment call that ends without a token although the
\* stored config is enabled: the instance is missing, or execute() rejects
\* or yields an empty token.
NoTokenStep ==
    /\ variant = "recaptcha"
    /\ recaptchaConfig.enabled
    /\ \/ lastEvent'.type = "submit" /\ ~recaptchaInstance
       \/ lastEvent'.type = "execute" /\ lastEvent'.out \in {"", "throw"}

\* C2: with the stored config enabled and no token obtained, submitComment
\* sends no create request, shows the fixed reCAPTCHA failure text, ends
\* with submitting false and leaves form, reply target and comments alone.
C2_TokenAbort ==
    [][ NoTokenStep =>
          /\ ~CreateIssued
          /\ PendingCreate' \subseteq PendingCreate
          /\ ~lastResult'.sent
          /\ message' = RecaptchaFailMsg
          /\ submitting' = FALSE
          /\ form' = form
          /\ replyingTo' = replyingTo
          /\ commentsData' = commentsData ]_vars

\* C2 witness: a call was aborted because the instance is missing while the
\* form was filled in and a reply target was set.
C2_Witness ==
    /\ lastEvent.type = "submit"
    /\ lastResult.outcome = "abort"
    /\ recaptchaConfig.enabled
    /\ ~recaptchaInstance
    /\ message = RecaptchaFailMsg
    /\ form = "draft"
    /\ replyingTo # Null

\* C3 (as claimed): whenever the server's config is enabled, every create
\* request that was sent carries a recaptcha token.
C3_NeverUnprotected ==
    \A k \in 1..MaxSubmits :
        (variant = "recaptcha" /\ serverCfg.enabled /\ calls[k].sent)
            => calls[k].token


\* C4 (as claimed): in every variant, from the moment the reload of an
\* approved submission is issued until it completes, loading is true.
C4_LoadingDuringReload ==
    \A k \in 1..MaxSubmits : calls[k].pc = "reload" => loading

\* 1 once onMounted has issued its list request.
MountIssued == IF mountPc \in {"list", "done"} THEN 1 ELSE 0

\* The create response handled by the latest step was successful and not
\* approved.
UnapprovedOk ==
    /\ lastEvent.type = "create"
    /\ lastEvent.resp.kind = "ok"
    /\ lastEvent.resp.approved # "true"

\* C5: list requests are issued once on mount and once per approved
\* successful create response, and by nothing else; an unapproved success
\* issues none and shows the server's message or the default confirmation.
C5_ListRequests ==
    /\ listIssued = MountIssued + approvedSeen
    /\ listIssued <= 1 + approvedSeen
    /\ UnapprovedOk =>
         /\ calls[lastEvent.call].pc = "none"
         /\ message = OrElse(lastEvent.resp.message, DefaultOkMsg)

\* C5 witness: a success with approved omitted and no message was handled
\* after the mount fetch; only the mount request has been issued.
C5_Witness ==
    /\ UnapprovedOk
    /\ lastEvent.resp.approved = "omitted"
    /\ lastEvent.resp.message = ""
    /\ message = DefaultOkMsg
    /\ listIssued = 1

\* The JSON value p is the number n or the string of its digits.
Denotes(p, n) == p = n \/ p = JsonString(n)

\* This step starts a submitComment call that is still active after it.
CallStarted ==
    lastEvent'.type = "submit" /\ calls'[lastEvent'.call].pc # "none"

\* The parent field of the call started by this step.
StartedParent == calls'[lastEvent'.call].parent

\* C6: a click with id i and label l sets the reply target to {i, l}; a
\* click without id changes nothing; cancel clears it; a submission's
\* parent is the target's id at the moment of the submit event (0 without
\* a target) and stays so while the call is in flight.
C6_ReplyTarget ==
    [][ /\ (variant = "recaptcha" /\ lastEvent'.type = "click") =>
             IF lastEvent'.commentId = ""
             THEN replyingTo' = replyingTo
             ELSE lastEvent'.attr # "" =>
                    replyingTo' = [id |-> lastEvent'.commentId,
                                   replyTo |-> lastEvent'.attr]
        /\ lastEvent'.type = "cancel" => replyingTo' = Null
        /\ CallStarted =>
             IF replyingTo = Null
             THEN Denotes(StartedParent, "0")
             ELSE StartedParent = JsonString(replyingTo.id)
        /\ \A k \in 1..MaxSubmits :
             (calls[k].pc # "none" /\ calls'[k].pc # "none")
                 => calls'[k].parent = calls[k].parent ]_vars

\* C6 witness: a create request carrying parent "42" is pending while the
\* visitor has meanwhile clicked the reply link of comment 7.
C6_Witness ==
    \E k \in 1..MaxSubmits :
        /\ calls[k].pc = "post"
        /\ calls[k].parent = JsonString("42")
        /\ lastEvent.type = "click"
        /\ replyingTo = [id |-> "7", replyTo |-> "Reply to Jane"]

\* The step handles a successful create response.
OkResponseStep ==
    lastEvent'.type = "create" /\ lastEvent'.resp.kind = "ok"

\* C7: a successful create response sets message to the server's message
\* (the default text when there is none), resets the form and clears the
\* reply target in the step that may start the reload; the reload starts
\* only if approved; the message is still the confirmation while the
\* reload is pending and when it has ended, however it ended.
C7_SuccessEffects ==
    /\ [][ OkResponseStep =>
             /\ message' = OrElse(lastEvent'.resp.message, DefaultOkMsg)
             /\ form' = ""
             /\ replyingTo' = Null
             /\ listIssued' # listIssued => lastEvent'.resp.approved = "true"
         ]_vars
    /\ [](\A k \in 1..MaxSubmits : calls[k].pc = "reload" =>
             message = OrElse(calls[k].reply, DefaultOkMsg))
    /\ []((lastEvent.type = "list" /\ lastEvent.owner # 0) =>
             message = OrElse(lastResult.message, DefaultOkMsg))

\* C7 witness: the reload of an approved submission failed with a network
\* error and the server's confirmation is still displayed.
C7_Witness ==
    /\ lastEvent.type = "list"
    /\ lastEvent.owner # 0
    /\ lastEvent.resp.kind = "network"
    /\ lastResult.message = "Comment posted successfully."
    /\ message = "Comment posted successfully."
    /\ ~submitting

\* The step handles a non-success create response that carries a message.
ErrorWithMessageStep ==
    /\ lastEvent'.type = "create"
    /\ lastEvent'.resp.kind = "status"
    /\ lastEvent'.resp.message # ""

\* C8: a non-success create response with message m displays exactly m and
\* leaves the form, the reply target and the comments alone; no list
\* request is issued.
C8_ErrorVerbatim ==
    [][ ErrorWithMessageStep =>
          /\ message' = lastEvent'.resp.message
          /\ form' = form
          /\ replyingTo' = replyingTo
          /\ commentsData' = commentsData
          /\ listIssued' = listIssued ]_vars

\* C8 witness: "Duplicate comment detected" is displayed verbatim, the form
\* still holds the draft and the reply target is still set.
C8_Witness ==
    /\ lastEvent.type = "create"
    /\ lastEvent.resp.kind = "status"
    /\ message = "Duplicate comment detected"
    /\ form = "draft"
    /\ replyingTo # Null

\* The message a failed call must leave, by the way it failed.
FailureText(result) ==
    CASE result.outcome = "abort"  -> RecaptchaFailMsg
      [] result.outcome = "status" ->
           IF result.message = "" THEN GenericErrorMsg ELSE result.message
      [] OTHER -> GenericErrorMsg

\* C9: after a call that failed (network failure, non-success status with
\* or without message, unreadable body, missing token) the call is over and
\* message is the text of that failure, never empty; a missing token sent
\* no request.
C9_FailureMessages ==
    (ActiveCalls = {}
        /\ lastResult.outcome \in {"abort", "status", "badjson", "network"})
    => /\ message = FailureText(lastResult)
       /\ message # ""
       /\ lastResult.outcome = "abort" => ~lastResult.sent

\* C9 witness: a non-success response without message left the generic
\* fallback text.
C9_Witness ==
    /\ ActiveCalls = {}
    /\ lastResult.outcome = "status"
    /\ lastResult.message = ""
    /\ message = GenericErrorMsg

\* C10: submitting is true exactly while a submitComment call has started
\* and not completed, whichever await it is at; once no call is active it
\* is false and the submit control is enabled again.
C10_SubmittingFlag ==
    /\ ActiveCalls # {} => submitting
    /\ ActiveCalls = {} => (~submitting /\ SubmitEnabled)

\* C10 witness: after a call that failed with a network error the visitor
\* has resubmitted, and the new call waits for its reload with the flag set.
C10_Witness ==
    /\ lastResult.outcome = "network"
    /\ \E k \in 1..MaxSubmits : calls[k].pc = "reload"
    /\ submitting


\* The step handles the response of a list request.
ListResponseStep == lastEvent'.type = "list"

\* C11: a list request that ends in a non-success status or a network
\* failure leaves commentsData as it was; a successful one replaces it
\* with the returned body; either way the step ends with loading false.
C11_ListResponseEffect ==
    [][ ListResponseStep =>
          /\ loading' = FALSE
          /\ lastEvent'.resp.kind = "ok" =>
                 commentsData' = lastEvent'.resp.body
          /\ lastEvent'.resp.kind # "ok" => commentsData' = commentsData
      ]_vars

\* C11 witness: a reload failed with a non-success status after two
\* comments had been loaded; they are still the comment state.
C11_Witness ==
    /\ lastEvent.type = "list"
    /\ lastEvent.owner # 0
    /\ lastEvent.resp.kind = "status"
    /\ commentsData = [rendered |-> "<li>A</li><li>B</li>", count |-> 2]
    /\ ~loading

\* Which of the template's three list states is rendered:
\* v-if="loading" / v-else-if="renderedComments" / v-else.
Presentation ==
    IF loading THEN "loading"
    ELSE IF renderedComments # "" THEN "list" ELSE "no-comments"

\* The list request handled by the latest step failed.
ListFailed ==
    lastEvent.type = "list" /\ lastEvent.resp.kind \in {"status", "network"}

\* C12 (as claimed): after a failed list request the "no comments"
\* presentation is shown, whatever the comment state was before.
C12_FailureShowsNoComments ==
    (variant = "recaptcha" /\ ListFailed) => Presentation = "no-comments"

\* C12 (amended): after a failed list request the retained comment state is
\* presented: "no comments" if no markup had been loaded before, the
\* previously loaded list otherwise.
C12_FailureShowsRetained ==
    [][ (ListResponseStep /\ lastEvent'.resp.kind \in {"status", "network"})
          => Presentation' =
               IF commentsData = Null \/ commentsData.rendered = ""
               THEN "no-comments" ELSE "list" ]_vars

\* C12 witness: the first load failed and the "no comments" presentation
\* is shown.
C12_Witness ==
    /\ ListFailed
    /\ lastEvent.owner = 0
    /\ listIssued = 1
    /\ commentsData = Null
    /\ Presentation = "no-comments"

\* C13 (as claimed): whenever the list is displayed and no re-bind is
\* pending, its reply links carry the click listener.
C13_LinksIntercepted ==
    (HasReply(variant) /\ ListShown /\ ~attachPending) => listenersAttached

\* The step in which onMounted issues its list request.
MountListStep == mountPc' = "list" /\ mountPc # "list"

\* The config response asks for the client library.
LibraryDue ==
    /\ lastEvent'.kind = "ok"
    /\ serverCfg.enabled
    /\ serverCfg.site_key # ""

\* C14: in the reCAPTCHA variant the config endpoint is requested once, at
\* mount; onMounted issues its list request only in the step that ends
\* fetchRecaptchaConfig (the config response when no library is due, else
\* the settling of load()), and it does so also when that step is a
\* failure.
C14_ConfigBeforeList ==
    /\ [](variant = "recaptcha" =>
            /\ configRequests = (IF mountPc = "unmounted" THEN 0 ELSE 1)
            /\ mountPc \in {"unmounted", "config", "load"} => MountIssued = 0)
    /\ [][ variant = "recaptcha" =>
             /\ MountListStep =>
                  \/ lastEvent'.type = "load" /\ mountPc = "load"
                  \/ /\ lastEvent'.type = "config"
                     /\ mountPc = "config"
                     /\ ~LibraryDue
             /\ (lastEvent'.type = "config" /\ ~LibraryDue) =>
                  (MountListStep /\ listIssued' = listIssued + 1)
             /\ (lastEvent'.type = "config" /\ LibraryDue) =>
                  (mountPc' = "load" /\ listIssued' = listIssued)
             /\ lastEvent'.type = "load" =>
                  (MountListStep /\ listIssued' = listIssued + 1)
         ]_vars

\* C14 witness: the library failed to load and the list request of
\* onMounted is nevertheless pending.
C14_Witness ==
    /\ variant = "recaptcha"
    /\ lastEvent.type = "load"
    /\ ~lastEvent.loaded
    /\ mountPc = "list"
    /\ configRequests = 1
    /\ listIssued = 1

\* The list request handled by the latest step succeeded.
ListLoaded == lastEvent.type = "list" /\ lastEvent.resp.kind = "ok"

\* C15: after a successful load the list is presented iff the returned
\* markup is non-empty, else "no comments"; the count the heading reads is
\* the returned count (count 0 stands for 0 or absent), so an empty
\* response yields "no comments" and a count of 0.
C15_LoadedPresentation ==
    ListLoaded =>
        /\ Presentation =
             IF lastEvent.resp.body.rendered # "" THEN "list"
             ELSE "no-comments"
        /\ HasReply(variant) => commentCount = lastEvent.resp.body.count

\* C15 witness: a load returned no comments.
C15_Witness ==
    /\ ListLoaded
    /\ HasReply(variant)
    /\ lastEvent.resp.body = [rendered |-> "", count |-> 0]
    /\ Presentation = "no-comments"
    /\ commentCount = 0


\* C16 (as claimed, comment state): commentsData always holds the successful
\* list response that was issued last among those received, so a response
\* to an older request never replaces the response to a newer one.
C16_NewestResponseWins == commentsData = freshest.body

\* message.includes('successfully'), over the texts the model can display.
IncludesSuccessfully(m) ==
    m \in {"Comment submitted successfully!", "Comment posted successfully."}

\* The class the template binds to the message element.
messageClass ==
    IF IncludesSuccessfully(message) THEN "success" ELSE "error"

\* C17 (as claimed): once a call has completed, the message carries the
\* success class exactly if that call succeeded and the error class exactly
\* if it failed or was aborted.
C17_ClassMatchesOutcome ==
    (ActiveCalls = {} /\ lastResult.outcome # "none")
        => (messageClass = "success" <=> lastResult.outcome = "ok")

=============================================================================
